---------------------------- MODULE Spec2Model ----------------------------
(***************************************************************************)
(* Signal propagation core of the sound/visual installation:               *)
(*   Signals      (src/src/core/Signals.js)                                *)
(*   Interaction  (src/src/core/Interaction.js)                            *)
(*   AudioEngine  (src/src/audio/AudioEngine.js)                           *)
(*   Renderer     (src/src/visuals/Renderer.js, the three.js renderer)     *)
(*   App          (src/unnamed/part_001, main.js)                          *)
(*                                                                         *)
(* Numbers.  A JavaScript number v is held as the integer v * Scale        *)
(* (fixed point, four decimals); products are rounded down.  Times are in  *)
(* milliseconds.  NaN is the string "NaN".                                 *)
(***************************************************************************)
EXTENDS Integers, Sequences, FiniteSets, TLC

(***************************************************************************)
(* Bounds of the model.                                                    *)
(***************************************************************************)
MaxTicks == 2          \* frame ticks / update() calls in one behaviour
MaxEvents == 3         \* pointer events (or direct API calls) in one behaviour
MaxPending == 2        \* initialize() calls suspended at the same time
MaxIdleTicks == 8      \* update() calls in a row with every input withheld
MaxFrames == 8         \* draw() calls in one behaviour of the renderer alone
MaxMeshFrames == 3     \* drawMesh() calls in one behaviour of the mesh alone
MaxLeadTicks == 6      \* frame ticks in one behaviour of a started page

Scale == 10000

(***************************************************************************)
(* Fixed-point helpers.                                                    *)
(***************************************************************************)
Min(a, b) == IF a < b THEN a ELSE b
Max(a, b) == IF a > b THEN a ELSE b
Abs(a) == IF a < 0 THEN 0 - a ELSE a

\* v * (m / 1000), m a per-mille constant of the source (0.995 is 995)
PerMille(v, m) == (v * m) \div 1000

Pi == 31416
TwoPi == 62832
PiSquared == 98696

\* Math.sin on fixed-point radians (Bhaskara's rational approximation on
\* [0, pi], extended by symmetry and period; absolute error below 0.002)
SinHalf(x) ==
    LET p == (x * (Pi - x)) \div Scale
    IN  (4 * p * Scale) \div (((5 * PiSquared) - (4 * p)) \div 4)

Sin(x) ==
    LET r == x % TwoPi
    IN  IF r <= Pi THEN SinHalf(r) ELSE 0 - SinHalf(r - Pi)

Cos(x) == Sin(x + (Pi \div 2))


(***************************************************************************)
(* Signals (src/src/core/Signals.js).                                      *)
(* The singleton is the record signals = [params, targets, aliased]:       *)
(* params and targets map a key to a number, and the key "position" to a   *)
(* point [x, y].  aliased says that params.position and targets.position   *)
(* are one and the same object (a forced perturb of "position" stores the  *)
(* caller's object under both names).                                      *)
(***************************************************************************)
VARIABLES signals

NaN == "NaN"

InitParams ==
    [ energy |-> 800, focus |-> 600, depth |-> 5000, resonance |-> 2000,
      texture |-> 1200, drag |-> 0, dragActive |-> 0, dragForce |-> 0,
      velocity |-> 0, sharpness |-> 0,
      position |-> [x |-> 5000, y |-> 5000], drift |-> 0 ]

\* this.smoothing, per mille
smoothing ==
    [ energy |-> 20, focus |-> 50, depth |-> 10, resonance |-> 30,
      texture |-> 20, drag |-> 50, dragActive |-> 200, dragForce |-> 70,
      velocity |-> 80, sharpness |-> 80, position |-> 80, drift |-> 5 ]

SignalsNew == [ params |-> InitParams, targets |-> InitParams, aliased |-> FALSE ]

\* the keys fixed at construction
SignalKeys == DOMAIN InitParams

\* idle decay rates, per mille
DecayEnergy == 995
DecayFocus == 990
DecayDrag == 950
DecayVelocity == 880
DecaySharpness == 850
DecayDragForce == 860

\* 0.06 + Math.sin(drift * 0.6) * 0.02  and  0.05 + Math.cos(drift * 0.4) * 0.02
BaseEnergy(drift) == 600 + ((Sin((drift * 6) \div 10) * 2) \div 100)
BaseFocus(drift) == 500 + ((Cos((drift * 4) \div 10) * 2) \div 100)

\* current += (target - current) * factor
Lerp(cur, tgt, factor) == cur + PerMille(tgt - cur, factor)

\* an update() whose drag decay follows the elapsed time
UpdateTargetsTimeScaled(t, dt) ==
    LET drift == t.drift + dt
        e == Max(t.energy, BaseEnergy(drift))
        f == Max(t.focus, BaseFocus(drift))
    IN  [ t EXCEPT !.drift = drift,
                   !.energy = PerMille(e, DecayEnergy),
                   !.focus = PerMille(f, DecayFocus),
                   !.drag = IF dt > 1000
                            THEN PerMille(PerMille(@, DecayDrag), DecayDrag)
                            ELSE PerMille(@, DecayDrag),
                   !.velocity = PerMille(@, DecayVelocity),
                   !.sharpness = PerMille(@, DecaySharpness),
                   !.dragForce = PerMille(@, DecayDragForce) ]

\* an update() without the floor, whose energy target falls with the time
UpdateTargetsNoFloor(t, dt) ==
    LET drift == t.drift + dt
        f == Max(t.focus, BaseFocus(drift))
    IN  [ t EXCEPT !.drift = drift,
                   !.energy = @ - (dt * 4),
                   !.focus = PerMille(f, DecayFocus),
                   !.drag = PerMille(@, DecayDrag),
                   !.velocity = PerMille(@, DecayVelocity),
                   !.sharpness = PerMille(@, DecaySharpness),
                   !.dragForce = PerMille(@, DecayDragForce) ]

\* an update() whose drift advances by one 60 Hz frame whatever the time
UpdateTargetsFixedStep(t, dt) ==
    LET drift == t.drift + 16
        e == Max(t.energy, BaseEnergy(drift))
        f == Max(t.focus, BaseFocus(drift))
    IN  [ t EXCEPT !.drift = drift,
                   !.energy = PerMille(e, DecayEnergy),
                   !.focus = PerMille(f, DecayFocus),
                   !.drag = PerMille(@, DecayDrag),
                   !.velocity = PerMille(@, DecayVelocity),
                   !.sharpness = PerMille(@, DecaySharpness),
                   !.dragForce = PerMille(@, DecayDragForce) ]

\* an update() that decays the pressed signal like a continuous one
UpdateTargetsDecaysPressed(t, dt) ==
    LET drift == t.drift + dt
        e == Max(t.energy, BaseEnergy(drift))
        f == Max(t.focus, BaseFocus(drift))
    IN  [ t EXCEPT !.drift = drift,
                   !.energy = PerMille(e, DecayEnergy),
                   !.focus = PerMille(f, DecayFocus),
                   !.drag = PerMille(@, DecayDrag),
                   !.dragActive = PerMille(@, DecayDrag),
                   !.velocity = PerMille(@, DecayVelocity),
                   !.sharpness = PerMille(@, DecaySharpness),
                   !.dragForce = PerMille(@, DecayDragForce) ]

\* the targets after the drift, floor and decay steps of update(); dt in ms,
\* so that dt / 1000 * 0.1 seconds is dt fixed-point units
UpdateTargets(t, dt) ==
    LET drift == t.drift + dt
        e == Max(t.energy, BaseEnergy(drift))
        f == Max(t.focus, BaseFocus(drift))
    IN  [ t EXCEPT !.drift = drift,
                   !.energy = PerMille(e, DecayEnergy),
                   !.focus = PerMille(f, DecayFocus),
                   !.drag = PerMille(@, DecayDrag),
                   !.velocity = PerMille(@, DecayVelocity),
                   !.sharpness = PerMille(@, DecaySharpness),
                   !.dragForce = PerMille(@, DecayDragForce) ]

\* a smoothing loop whose position step is one and a half times the distance
SmoothKeyOvershoot(key, p, t, aliased) ==
    IF key = "position"
    THEN IF aliased
         THEN t.position
         ELSE [ x |-> Lerp(p.position.x, t.position.x, 1500),
                y |-> Lerp(p.position.y, t.position.y, 1500) ]
    ELSE IF key = "dragActive"
    THEN t.dragActive
    ELSE IF key \in DOMAIN smoothing
    THEN Lerp(p[key], t[key], smoothing[key])
    ELSE NaN

\* the body of the for-in loop of update() for one key of params
SmoothKey(key, p, t, aliased) ==
    IF key = "position"
    THEN IF aliased
         THEN t.position
         ELSE [ x |-> Lerp(p.position.x, t.position.x, smoothing.position),
                y |-> Lerp(p.position.y, t.position.y, smoothing.position) ]
    ELSE IF key = "dragActive"
    THEN t.dragActive
    ELSE IF key \in DOMAIN smoothing
    THEN Lerp(p[key], t[key], smoothing[key])
    ELSE NaN

\* Signals.update(), dt the milliseconds since the previous update()
SignalsUpdate(s, dt) ==
    LET t == UpdateTargets(s.targets, dt)
    IN  [ s EXCEPT !.targets = t,
                   !.params = [ key \in DOMAIN s.params |->
                                   SmoothKey(key, s.params, t, s.aliased) ] ]

\* names every object inherits from Object.prototype: the in operator of
\* perturb()'s guard finds them in targets although they are no signal
ObjectPrototypeNames == { "toString" }

\* key in this.targets
KeyIn(key, obj) == key \in DOMAIN obj \/ key \in ObjectPrototypeNames

\* obj[key] = value, which adds the key when obj has no such own property
Put(obj, key, value) ==
    [ k \in DOMAIN obj \cup {key} |-> IF k = key THEN value ELSE obj[k] ]

\* perturb() whose forced write forgets the current value
PerturbTargetOnly(s, key, value, force) ==
    IF ~ KeyIn(key, s.targets)
    THEN s
    ELSE IF key = "energy" /\ ~ force
    THEN [ s EXCEPT !.targets.energy = Min(Scale, @ + value) ]
    ELSE [ s EXCEPT !.targets = Put(s.targets, key, value),
                    !.aliased = IF key = "position" THEN FALSE ELSE @ ]

\* perturb() whose additive branch has no upper bound
PerturbUncapped(s, key, value, force) ==
    IF ~ KeyIn(key, s.targets)
    THEN s
    ELSE IF force
    THEN [ params |-> Put(s.params, key, value),
           targets |-> Put(s.targets, key, value),
           aliased |-> IF key = "position" THEN TRUE ELSE s.aliased ]
    ELSE IF key = "energy"
    THEN [ s EXCEPT !.targets.energy = @ + value ]
    ELSE [ s EXCEPT !.targets = Put(s.targets, key, value),
                    !.aliased = IF key = "position" THEN FALSE ELSE @ ]

\* Signals.perturb(key, value, force)
Perturb(s, key, value, force) ==
    IF ~ KeyIn(key, s.targets)
    THEN s
    ELSE IF force
    THEN [ params |-> Put(s.params, key, value),
           targets |-> Put(s.targets, key, value),
           aliased |-> IF key = "position" THEN TRUE ELSE s.aliased ]
    ELSE IF key = "energy"
    THEN [ s EXCEPT !.targets.energy = Min(Scale, @ + value) ]
    ELSE [ s EXCEPT !.targets = Put(s.targets, key, value),
                    !.aliased = IF key = "position" THEN FALSE ELSE @ ]

\* Signals.setCursor(x, y): writes the fields of the targets.position object
SetCursor(s, x, y) ==
    [ s EXCEPT !.targets.position = [x |-> x, y |-> y],
               !.params.position = IF s.aliased THEN [x |-> x, y |-> y] ELSE @ ]


(***************************************************************************)
(* Interaction (src/src/core/Interaction.js).                              *)
(* An instance is [isMouseDown, lastPosition, lastVector]; the time since  *)
(* its previous sample (now - this.lastTime) is an input of handleMove.    *)
(* A handler maps [interaction, signals] to [interaction, signals].        *)
(***************************************************************************)
InteractionNew ==
    [ isMouseDown |-> FALSE,
      lastPosition |-> [x |-> 5000, y |-> 5000],
      lastVector |-> [x |-> 0, y |-> 0] ]

RECURSIVE SqrtIter(_, _, _)
SqrtIter(n, lo, hi) ==
    IF lo >= hi THEN lo
    ELSE LET mid == (lo + hi + 1) \div 2
         IN  IF mid * mid <= n THEN SqrtIter(n, mid, hi) ELSE SqrtIter(n, lo, mid - 1)

\* Math.sqrt, rounded down, of n < 2^31
Sqrt(n) == SqrtIter(n, 0, 46340)

\* Math.hypot(dx, dy), which is also Math.sqrt(dx * dx + dy * dy)
Hypot(dx, dy) == Sqrt((dx * dx) + (dy * dy))

\* num / den as a fixed-point number, for |num| <= den, without leaving 32 bits
Ratio(num, den) ==
    IF den < 200000 THEN (num * Scale) \div den
    ELSE IF den < 20000000 THEN (num * 100) \div (den \div 100)
    ELSE num \div (den \div Scale)

\* Math.acos(c) for 0 <= c <= 1 (Abramowitz and Stegun 4.4.45)
AcosPos(c) ==
    LET c2 == (c * c) \div Scale
        c3 == (c2 * c) \div Scale
        poly == ((15707 - ((2121 * c) \div Scale)) + ((743 * c2) \div Scale))
                    - ((187 * c3) \div Scale)
    IN  (Sqrt((Scale - c) * Scale) * poly) \div Scale

Acos(c) == IF c >= 0 THEN AcosPos(c) ELSE Pi - AcosPos(0 - c)

MagnitudeEpsilon == 1      \* 0.0001
MaxSpeed == 3

\* a sharpness without the magnitude test, dividing by whatever it gets
SharpnessUnguarded(lastVector, dx, dy) ==
    LET magPrev == Hypot(lastVector.x, lastVector.y)
        magCurr == Hypot(dx, dy)
        dot == Ratio((lastVector.x * dx) + (lastVector.y * dy),
                     Max(1, magPrev * magCurr))
        clamped == Max(0 - Scale, Min(Scale, dot))
        angle == Acos(clamped)
    IN  Min(Scale, (angle * Scale) \div Pi)

\* lines 53-61 of handleMove
Sharpness(lastVector, dx, dy) ==
    LET magPrev == Hypot(lastVector.x, lastVector.y)
        magCurr == Hypot(dx, dy)
    IN  IF magPrev > MagnitudeEpsilon /\ magCurr > MagnitudeEpsilon
        THEN LET dot == Ratio((lastVector.x * dx) + (lastVector.y * dy),
                              magPrev * magCurr)
                 clamped == Max(0 - Scale, Min(Scale, dot))
                 angle == Acos(clamped)
             IN  Min(Scale, (angle * Scale) \div Pi)
        ELSE 0

\* lines 46-50 of handleMove; dtMs = now - this.lastTime
Velocity(dist, dtMs) ==
    LET dt == Max(1, dtMs)
    IN  Min(Scale, (dist * 1000) \div (MaxSpeed * dt))

\* a drag force that does not look at the pressed flag
DragForceAlways(isMouseDown, velocity, dist) ==
    Min(Scale, (500 + ((velocity * 9) \div 10)) + (dist * 10))

\* line 69 of handleMove
DragForce(isMouseDown, velocity, dist) ==
    IF isMouseDown
    THEN Min(Scale, (500 + ((velocity * 9) \div 10)) + (dist * 10))
    ELSE 0

\* the pressed signal written without force
DragActiveSampleSmoothed(s, isMouseDown) ==
    Perturb(s, "dragActive", IF isMouseDown THEN Scale ELSE 0, FALSE)

\* lines 62-66 of handleMove: the pressed signal, forced at every move sample
DragActiveSample(s, isMouseDown) ==
    Perturb(s, "dragActive", IF isMouseDown THEN Scale ELSE 0, TRUE)

\* Interaction.handleMove(e), x = e.clientX / window.innerWidth and
\* y = e.clientY / window.innerHeight
HandleMove(w, x, y, dtMs) ==
    LET i == w.interaction
        dx == x - i.lastPosition.x
        dy == y - i.lastPosition.y
        dist == Hypot(dx, dy)
        velocity == Velocity(dist, dtMs)
        sharpness == Sharpness(i.lastVector, dx, dy)
        dragForce == DragForce(i.isMouseDown, velocity, dist)
        s0 == SetCursor(w.signals, x, y)
        s1 == Perturb(s0, "velocity", velocity, FALSE)
        s2 == DragActiveSample(s1, i.isMouseDown)
        s3 == Perturb(s2, "sharpness", sharpness, FALSE)
        s4 == Perturb(s3, "dragForce", dragForce, FALSE)
        s5 == Perturb(s4, "energy", dist * 2, FALSE)
        s6 == Perturb(s5, "focus", 2000 + (dist * 5), FALSE)
        s7 == IF i.isMouseDown THEN Perturb(s6, "drag", dist * 10, FALSE) ELSE s6
    IN  [ interaction |-> [ i EXCEPT !.lastPosition = [x |-> x, y |-> y],
                                     !.lastVector = [x |-> dx, y |-> dy] ],
          signals |-> s7 ]

\* Interaction.handleDown(e)
HandleDown(w) ==
    LET s1 == Perturb(w.signals, "energy", 3000, FALSE)
        s2 == Perturb(s1, "focus", 8000, FALSE)
        s3 == Perturb(s2, "resonance", 6000, FALSE)
    IN  [ interaction |-> [ w.interaction EXCEPT !.isMouseDown = TRUE ],
          signals |-> s3 ]

\* Interaction.handleUp()
HandleUp(w) ==
    [ interaction |-> [ w.interaction EXCEPT !.isMouseDown = FALSE ],
      signals |-> w.signals ]


(***************************************************************************)
(* AudioEngine (src/src/audio/AudioEngine.js).                             *)
(* audio = [initialized, currentChordIndex, superSawActive, leadStarted,   *)
(* graphs, loops]: leadStarted is leadSynth.oscillator.state === 'started',*)
(* graphs counts the audio graphs init() has built, loops the calls of     *)
(* startGenerativeLoop().  The sound renderer (Tone.js) is seen through    *)
(* the commands it receives, a sequence of their names.                    *)
(***************************************************************************)
NumChords == 4
ChordLength == 5
DragThreshold == 500      \* 0.05

AudioEngineNew ==
    [ initialized |-> FALSE, currentChordIndex |-> 0, superSawActive |-> FALSE,
      leadStarted |-> FALSE, graphs |-> 0, loops |-> 0 ]

\* Math.floor((1 - pos.y) * chord.length)
NoteIndex(y) == ((Scale - y) * ChordLength) \div Scale

\* the commands one AudioEngine.update() sends when each of them succeeds;
\* leadQuiet is the reading leadSynth.volume.value < -80
UpdateCommands(a, s, leadQuiet) ==
    LET lead == IF s.params.drag > DragThreshold
                THEN <<"leadSynth.frequency.rampTo", "leadSynth.volume.rampTo">>
                     \o (IF a.leadStarted THEN <<>> ELSE <<"leadSynth.triggerAttack">>)
                ELSE <<"leadSynth.volume.rampTo">>
                     \o (IF leadQuiet /\ a.leadStarted
                         THEN <<"leadSynth.triggerRelease">> ELSE <<>>)
        saw == <<"superSaw.filter.frequency.rampTo", "superSawDist.wet.rampTo",
                 "superSaw.volume.rampTo">>
               \o (IF a.superSawActive THEN <<>> ELSE <<"superSaw.triggerAttack">>)
               \o <<"superSaw.frequency.rampTo">>
    IN  <<"pad.volume.rampTo", "monoShelf.filter.frequency.rampTo">> \o lead \o saw

\* the commands sent before the one the sound renderer fails
RECURSIVE Before(_, _)
Before(cmds, failing) ==
    IF cmds = <<>> \/ Head(cmds) = failing THEN <<>>
    ELSE <<Head(cmds)>> \o Before(Tail(cmds), failing)

Has(cmds, c) == \E n \in 1..Len(cmds) : cmds[n] = c

\* an update() that drains the energy target it reads
AudioEngineUpdateDrains(w, failing, leadQuiet) ==
    IF ~ w.audio.initialized
    THEN [ w EXCEPT !.threw = FALSE ]
    ELSE LET all == UpdateCommands(w.audio, w.signals, leadQuiet)
             sent == Before(all, failing)
         IN  [ w EXCEPT
                 !.signals.targets.energy = 0,
                 !.cmds = @ \o sent,
                 !.threw = Len(sent) < Len(all),
                 !.audio.leadStarted =
                     IF Has(sent, "leadSynth.triggerAttack") THEN TRUE
                     ELSE IF Has(sent, "leadSynth.triggerRelease") THEN FALSE
                     ELSE @,
                 !.audio.superSawActive =
                     @ \/ Has(sent, "superSaw.triggerAttack") ]

\* AudioEngine.update(); failing is the command the sound renderer throws on
\* ("none": it accepts them all)
AudioEngineUpdate(w, failing, leadQuiet) ==
    IF ~ w.audio.initialized
    THEN [ w EXCEPT !.threw = FALSE ]
    ELSE LET all == UpdateCommands(w.audio, w.signals, leadQuiet)
             sent == Before(all, failing)
         IN  [ w EXCEPT
                 !.cmds = @ \o sent,
                 !.threw = Len(sent) < Len(all),
                 !.audio.leadStarted =
                     IF Has(sent, "leadSynth.triggerAttack") THEN TRUE
                     ELSE IF Has(sent, "leadSynth.triggerRelease") THEN FALSE
                     ELSE @,
                 !.audio.superSawActive =
                     @ \/ Has(sent, "superSaw.triggerAttack") ]

(***************************************************************************)
(* Renderer (src/src/visuals/Renderer.js, lines 276-886).                  *)
(* renderer = [coreEnergy].  The frame renderer is three.js's               *)
(* WebGLRenderer, called at the end of draw().                             *)
(***************************************************************************)
CoreSmoothing == 80       \* 0.08
MaxFrameDelta == 100      \* 0.1 s

RendererNew == [ coreEnergy |-> 0 ]

\* a core that switches on and off at once
CoreEnergySnaps(coreEnergy, dragActive) ==
    IF dragActive # 0 THEN Scale ELSE 0

\* lines 771-773 of updateLighting
CoreEnergy(coreEnergy, dragActive) ==
    LET targetCoreEnergy == IF dragActive # 0 THEN Scale ELSE 0
    IN  Lerp(coreEnergy, targetCoreEnergy, CoreSmoothing)

\* Renderer.draw(); dtMs is this.clock.getDelta(), renderFails says that
\* this.renderer.render(scene, camera) throws
RendererDraw(w, dtMs, renderFails) ==
    IF dtMs > MaxFrameDelta
    THEN [ w EXCEPT !.threw = FALSE ]
    ELSE [ w EXCEPT
             !.renderer.coreEnergy = CoreEnergy(@, w.signals.params.dragActive),
             !.threw = renderFails ]


(***************************************************************************)
(* App (src/unnamed/part_001, main.js).                                    *)
(***************************************************************************)
VARIABLES
    interactions,       \* the Interaction instances created, in order of creation
    audio,              \* the audioEngine singleton
    renderer,           \* this.renderer
    statusLabel,        \* this.statusLabel.innerText: [state, energy (2 decimals)]
    audioFaulted,       \* this.audioFaulted
    appInitialized,     \* this.initialized
    startScreenHidden,  \* the start screen carries the class 'hidden'
    pendingInits,       \* initialize() calls suspended at await Tone.start()
    initRejected,       \* some initialize() call has ended rejected
    loopScheduled,      \* a requestAnimationFrame callback for loop() is pending
    uncaught,           \* the step whose exception left loop(), or "none"
    errorLogs,          \* calls of console.error
    tickLog,            \* the steps the last loop() started, in order
    cmds,               \* the commands the last operation sent to the sound renderer
    lastOp,             \* the last operation and its arguments
    ticks, events       \* frame ticks and pointer events so far, for the bounds

vars == << signals, interactions, audio, renderer, statusLabel, audioFaulted,
           appInitialized, startScreenHidden, pendingInits, initRejected,
           loopScheduled, uncaught, errorLogs, tickLog, cmds, lastOp,
           ticks, events >>

\* the inputs tried
FrameDts == { 16, 3000 }                      \* ms between two frames
MoveDts == { 8 }                              \* ms between two move samples
Points == { [x |-> 6000, y |-> 5000], [x |-> 5000, y |-> 0] }   \* pointer samples
FailingCommands == { "superSaw.volume.rampTo" }

\* App.updateUI()
UpdateUI(w) ==
    LET energy == w.signals.params.energy
        state == IF energy > 6000 THEN "HIGH_INTENSITY_BIAS"
                 ELSE IF energy > 2000 THEN "INTERACTION_BIAS"
                 ELSE "IDLE_BIAS"
    IN  [ w EXCEPT !.statusLabel = [state |-> state, energy |-> (energy + 50) \div 100] ]

Step(w, name) == [ w EXCEPT !.tickLog = Append(@, name) ]

\* a loop() that calls the audio update whatever the flag says
LoopAudioUnguarded(w, failing, leadQuiet) ==
    LET a == AudioEngineUpdate(Step(w, "audioEngine.update"), failing, leadQuiet)
    IN  IF a.threw
        THEN [ a EXCEPT !.audioFaulted = TRUE, !.errorLogs = @ + 1, !.threw = FALSE ]
        ELSE a

\* lines 42-50 of loop(): the guarded audio update
LoopAudio(w, failing, leadQuiet) ==
    IF w.audioFaulted
    THEN w
    ELSE LET a == AudioEngineUpdate(Step(w, "audioEngine.update"), failing, leadQuiet)
         IN  IF a.threw
             THEN [ a EXCEPT !.audioFaulted = TRUE, !.errorLogs = @ + 1, !.threw = FALSE ]
             ELSE a

\* a loop() that updates the UI before it draws
LoopRenderUIFirst(w, frameDelta, renderFails) ==
    LET d == RendererDraw(Step(UpdateUI(Step(w, "updateUI")), "renderer.draw"),
                          frameDelta, renderFails)
    IN  IF d.threw
        THEN [ d EXCEPT !.uncaught = "renderer.draw", !.loopScheduled = FALSE ]
        ELSE [ Step(d, "requestAnimationFrame") EXCEPT !.loopScheduled = TRUE ]

\* lines 52-58 of loop(): draw, UI, requestAnimationFrame
LoopRender(w, frameDelta, renderFails) ==
    LET d == RendererDraw(Step(w, "renderer.draw"), frameDelta, renderFails)
    IN  IF d.threw
        THEN [ d EXCEPT !.uncaught = "renderer.draw", !.loopScheduled = FALSE ]
        ELSE [ Step(UpdateUI(Step(d, "updateUI")), "requestAnimationFrame")
                 EXCEPT !.loopScheduled = TRUE ]

\* a loop() without the try/catch around the audio update
AppLoopNoCatch(w, dtMs, frameDelta, failing, leadQuiet, renderFails) ==
    LET w1 == [ w EXCEPT !.signals = SignalsUpdate(@, dtMs),
                         !.tickLog = <<"signals.update">>,
                         !.cmds = <<>>,
                         !.loopScheduled = FALSE ]
        a == IF w1.audioFaulted
             THEN w1
             ELSE AudioEngineUpdate(Step(w1, "audioEngine.update"), failing, leadQuiet)
    IN  IF a.threw
        THEN [ a EXCEPT !.uncaught = "audioEngine.update" ]
        ELSE LoopRender(a, frameDelta, renderFails)

\* App.loop(); dtMs is the time since the last signals.update(), frameDelta
\* the time since the last renderer.draw()
AppLoop(w, dtMs, frameDelta, failing, leadQuiet, renderFails) ==
    LET w1 == [ w EXCEPT !.signals = SignalsUpdate(@, dtMs),
                         !.tickLog = <<"signals.update">>,
                         !.cmds = <<>>,
                         !.loopScheduled = FALSE ]
    IN  LoopRender(LoopAudio(w1, failing, leadQuiet), frameDelta, renderFails)

\* the objects loop() works on
World ==
    [ signals |-> signals, audio |-> audio, renderer |-> renderer,
      statusLabel |-> statusLabel, audioFaulted |-> audioFaulted,
      errorLogs |-> errorLogs, loopScheduled |-> loopScheduled,
      uncaught |-> uncaught, tickLog |-> tickLog, cmds |-> cmds, threw |-> FALSE ]

\* new App(), up to the call of this.loop() that ends the constructor
Constructed ==
    [ signals |-> SignalsNew, audio |-> AudioEngineNew, renderer |-> RendererNew,
      statusLabel |-> [state |-> "", energy |-> 0], audioFaulted |-> FALSE,
      errorLogs |-> 0, loopScheduled |-> FALSE, uncaught |-> "none",
      tickLog |-> <<>>, cmds |-> <<>>, threw |-> FALSE ]


\* the listeners Interaction.init() registers for one instance, by event
Listeners(ev, w, arg) ==
    CASE ev = "pointerdown" -> HandleDown(HandleDown(w))     \* lines 22 and 27
      [] ev = "pointermove" -> HandleMove(w, arg.x, arg.y, arg.dt)
      [] OTHER -> HandleUp(w)                                \* pointerup, pointercancel

\* the window dispatches an event to the listeners of every instance
RECURSIVE Deliver(_, _, _, _)
Deliver(insts, s, ev, arg) ==
    IF insts = <<>>
    THEN [ interactions |-> <<>>, signals |-> s ]
    ELSE LET r == Listeners(ev, [interaction |-> Head(insts), signals |-> s], arg)
             rest == Deliver(Tail(insts), r.signals, ev, arg)
         IN  [ interactions |-> <<r.interaction>> \o rest.interactions,
               signals |-> rest.signals ]

NoArg == [x |-> 0, y |-> 0, dt |-> 0]

PointerEvent(ev, arg) ==
    /\ interactions # <<>>          \* no listener before the first Interaction
    /\ events < MaxEvents
    /\ \E r \in { Deliver(interactions, signals, ev, arg) } :
           /\ signals' = r.signals
           /\ interactions' = r.interactions
    /\ events' = events + 1
    /\ cmds' = <<>>
    /\ lastOp' = [op |-> ev]
    /\ UNCHANGED << audio, renderer, statusLabel, audioFaulted, appInitialized,
                    startScreenHidden, pendingInits, initRejected, loopScheduled,
                    uncaught, errorLogs, tickLog, ticks >>

PointerDown == PointerEvent("pointerdown", NoArg)

PointerMove ==
    \E pt \in Points, dt \in MoveDts :
        PointerEvent("pointermove", [x |-> pt.x, y |-> pt.y, dt |-> dt])

\* pointerup or pointercancel: both are bound to handleUp
PointerUp == PointerEvent("pointerup", NoArg)

\* one requestAnimationFrame callback: App.loop().  failings are the commands
\* the sound renderer may fail, renderFaults the outcomes of the frame renderer
LoopWith(failings, renderFaults) ==
    /\ loopScheduled
    /\ ticks < MaxTicks
    /\ \E dt \in FrameDts, failing \in failings,
          leadQuiet \in BOOLEAN, renderFails \in renderFaults :
          \E w \in { AppLoop(World, dt, dt, failing, leadQuiet, renderFails) } :
              /\ signals' = w.signals
              /\ audio' = w.audio
              /\ renderer' = w.renderer
              /\ statusLabel' = w.statusLabel
              /\ audioFaulted' = w.audioFaulted
              /\ errorLogs' = w.errorLogs
              /\ loopScheduled' = w.loopScheduled
              /\ uncaught' = w.uncaught
              /\ tickLog' = w.tickLog
              /\ cmds' = w.cmds
              /\ lastOp' = [op |-> "loop", dt |-> dt]
    /\ ticks' = ticks + 1
    /\ UNCHANGED << interactions, appInitialized, startScreenHidden, pendingInits,
                    initRejected, events >>


\* what AudioEngine.init() does once Tone.start() has settled.  outcome:
\*   "rejected"        Tone.start() rejects, or building the graph (lines 31-85)
\*                     throws: this.initialized is still false
\*   "playChordFails"  line 135, the last of startGenerativeLoop(), throws
\*   "attackFails"     line 94, this.superSaw.triggerAttack(note), throws
\*   "ok"              init() resolves
AudioEngineInit(a, outcome) ==
    IF outcome = "rejected"
    THEN a
    ELSE [ a EXCEPT !.initialized = TRUE,
                    !.leadStarted = FALSE,      \* a new leadSynth, lines 64-70
                    !.graphs = @ + 1,
                    !.loops = @ + 1,
                    !.superSawActive = IF outcome = "ok" THEN TRUE ELSE @ ]

InitCommands(outcome) ==
    CASE outcome = "rejected" -> <<>>
      [] outcome = "playChordFails" -> <<"Transport.start", "pad.releaseAll">>
      [] outcome = "attackFails" ->
            <<"Transport.start", "pad.releaseAll", "pad.triggerAttack">>
      [] OTHER -> <<"Transport.start", "pad.releaseAll", "pad.triggerAttack",
                    "superSaw.triggerAttack">>

InitOutcomes == { "rejected", "playChordFails", "attackFails", "ok" }

\* an initialize() that creates the Interaction before it awaits the engine
ClickWithEager(maxPending) ==
    /\ ~ appInitialized
    /\ pendingInits < maxPending
    /\ cmds' = <<>>
    /\ lastOp' = [op |-> "click"]
    /\ startScreenHidden' = TRUE
    /\ interactions' = Append(interactions, InteractionNew)
    /\ IF audio.initialized
       THEN /\ appInitialized' = TRUE
            /\ UNCHANGED pendingInits
       ELSE /\ pendingInits' = pendingInits + 1
            /\ UNCHANGED appInitialized
    /\ UNCHANGED << signals, audio, renderer, statusLabel, audioFaulted, initRejected,
                    loopScheduled, uncaught, errorLogs, tickLog, ticks, events >>

\* a click on the start screen: App.initialize() up to its await (it returns
\* at line 29 once this.initialized is set).  When audioEngine.init() returns
\* at line 27 the rest of initialize() follows in the same turn of the event
\* loop (a microtask).
ClickWith(maxPending) ==
    /\ ~ appInitialized
    /\ pendingInits < maxPending
    /\ cmds' = <<>>
    /\ lastOp' = [op |-> "click"]
    /\ startScreenHidden' = TRUE
    /\ IF audio.initialized
       THEN /\ interactions' = Append(interactions, InteractionNew)
            /\ appInitialized' = TRUE
            /\ UNCHANGED pendingInits
       ELSE /\ pendingInits' = pendingInits + 1
            /\ UNCHANGED << interactions, appInitialized >>
    /\ UNCHANGED << signals, audio, renderer, statusLabel, audioFaulted, initRejected,
                    loopScheduled, uncaught, errorLogs, tickLog, ticks, events >>

\* Tone.start() settles for one suspended initialize(): the rest of
\* AudioEngine.init() and, when it resolves, the rest of App.initialize()
SettleWith(outcomes) ==
    /\ pendingInits > 0
    /\ pendingInits' = pendingInits - 1
    /\ \E outcome \in outcomes :
          /\ audio' = AudioEngineInit(audio, outcome)
          /\ cmds' = InitCommands(outcome)
          /\ lastOp' = [op |-> "init", outcome |-> outcome]
          /\ IF outcome = "ok"
             THEN /\ interactions' = Append(interactions, InteractionNew)
                  /\ appInitialized' = TRUE
                  /\ UNCHANGED initRejected
             ELSE /\ initRejected' = TRUE
                  /\ UNCHANGED << interactions, appInitialized >>
    /\ UNCHANGED << signals, renderer, statusLabel, audioFaulted, startScreenHidden,
                    loopScheduled, uncaught, errorLogs, tickLog, ticks, events >>

\* Math.random() < probability: a draw in [0, 1) can decide either way unless
\* the probability is 0 or below (never) or 1 or above (always)
Flip(probability, coin) ==
    /\ coin => probability > 0
    /\ ~ coin => probability < Scale

\* a callback of the musical clock, registered by startGenerativeLoop(); next
\* is the program's state after it.  The notes it triggers go to the sound
\* renderer and leave no trace in the program.
Callback(next) ==
    /\ audio.loops > 0
    /\ signals' = next.signals
    /\ audio' = next.audio
    /\ UNCHANGED << interactions, renderer, statusLabel, audioFaulted,
                    appInitialized, startScreenHidden, pendingInits, initRejected,
                    loopScheduled, uncaught, errorLogs, tickLog, cmds, lastOp,
                    ticks, events >>

\* a chord callback that skips a chord
ChordStepSkips(w, coin) ==
    IF coin
    THEN [ w EXCEPT !.audio.currentChordIndex = (@ + 2) % NumChords ]
    ELSE w

\* the body of the quarter-note callback, lines 100-108
ChordStep(w, coin) ==
    IF coin
    THEN [ w EXCEPT !.audio.currentChordIndex = (@ + 1) % NumChords ]
    ELSE w

\* the body of the half-note callback, lines 111-117
MonoStep(w, coin) == w

\* the body of the eighth-note callback, lines 120-132
GrainStep(w, coin) == w

\* lines 100-108: chord progression, every quarter note
ChordCallback ==
    \E coin \in BOOLEAN :
        /\ Flip(1000 + ((signals.params.energy * 2) \div 10), coin)
        /\ Callback(ChordStep(World, coin))

\* lines 111-117: ordered monophonic voice, every half note
MonoCallback ==
    \E coin \in BOOLEAN :
        /\ Flip(3000 + ((signals.params.energy * 4) \div 10), coin)
        /\ Callback(MonoStep(World, coin))

\* lines 120-132: high-register grains, every eighth note
GrainCallback ==
    \E coin \in BOOLEAN :
        /\ Flip(Min(Scale, (500 + ((signals.params.focus * 4) \div 10))
                               + ((signals.params.velocity * 8) \div 10)), coin)
        /\ Callback(GrainStep(World, coin))

\* the state new App() leaves: the constructor ends with a first loop(), whose
\* renderer clock starts at 0
Init ==
    \E dt \in FrameDts :
        \E w \in { AppLoop(Constructed, dt, 0, "none", FALSE, FALSE) } :
            /\ signals = w.signals
            /\ audio = w.audio
            /\ renderer = w.renderer
            /\ statusLabel = w.statusLabel
            /\ audioFaulted = w.audioFaulted
            /\ errorLogs = w.errorLogs
            /\ loopScheduled = w.loopScheduled
            /\ uncaught = w.uncaught
            /\ tickLog = w.tickLog
            /\ cmds = w.cmds
            /\ lastOp = [op |-> "new App", dt |-> dt]
            /\ interactions = <<>>
            /\ appInitialized = FALSE
            /\ startScreenHidden = FALSE
            /\ pendingInits = 0
            /\ initRejected = FALSE
            /\ ticks = 0
            /\ events = 0

(***************************************************************************)
(* Spec: the program with collaborators that work (Tone.start() resolves,  *)
(* the sound renderer and the frame renderer accept every command) and a   *)
(* user who clicks the start screen once at a time.                        *)
(***************************************************************************)
Click == ClickWith(1)
ToneStartSettles == SettleWith({"ok"})
Loop == LoopWith({"none"}, {FALSE})

Next ==
    \/ Click
    \/ ToneStartSettles
    \/ PointerDown
    \/ PointerMove
    \/ PointerUp
    \/ Loop
    \/ ChordCallback
    \/ MonoCallback
    \/ GrainCallback

Spec == Init /\ [][Next]_vars

(***************************************************************************)
(* SpecFaults: start-up and the frame loop with collaborators that may     *)
(* fail and clicks that arrive while an earlier initialize() is suspended. *)
(***************************************************************************)
ClickAnyTime == ClickWith(MaxPending)
ToneStartSettlesOrFails == SettleWith(InitOutcomes)
LoopWithFaults == LoopWith({"none"} \cup FailingCommands, BOOLEAN)

NextFaults ==
    \/ ClickAnyTime
    \/ ToneStartSettlesOrFails
    \/ LoopWithFaults

SpecFaults == Init /\ [][NextFaults]_vars

(***************************************************************************)
(* SpecSignals: the Signals object alone, right after new Signals(), with  *)
(* a caller that uses its three methods directly.                          *)
(***************************************************************************)
ApiKeys == { "energy", "dragActive", "position", "foo", "toString" }

ApiValues(key) ==
    IF key = "position" THEN { [x |-> 2000, y |-> 8000] }
    ELSE IF key \in SignalKeys THEN { 0, 15000 }
    ELSE { 5000 }

InitApi ==
    /\ signals = SignalsNew
    /\ audio = Constructed.audio
    /\ renderer = Constructed.renderer
    /\ statusLabel = Constructed.statusLabel
    /\ audioFaulted = Constructed.audioFaulted
    /\ errorLogs = Constructed.errorLogs
    /\ loopScheduled = Constructed.loopScheduled
    /\ uncaught = Constructed.uncaught
    /\ tickLog = Constructed.tickLog
    /\ cmds = Constructed.cmds
    /\ lastOp = [op |-> "new Signals"]
    /\ interactions = <<>>
    /\ appInitialized = FALSE
    /\ startScreenHidden = FALSE
    /\ pendingInits = 0
    /\ initRejected = FALSE
    /\ ticks = 0
    /\ events = 0

ApiUnchanged ==
    UNCHANGED << interactions, audio, renderer, statusLabel, audioFaulted,
                 appInitialized, startScreenHidden, pendingInits, initRejected,
                 loopScheduled, uncaught, errorLogs, tickLog, cmds >>

\* signals.perturb(key, value, force)
ApiPerturbOf(keys) ==
    /\ events < MaxEvents
    /\ \E key \in keys, force \in BOOLEAN :
          \E value \in ApiValues(key) :
              /\ signals' = Perturb(signals, key, value, force)
              /\ lastOp' = [op |-> "perturb", key |-> key, value |-> value,
                            force |-> force]
    /\ events' = events + 1
    /\ UNCHANGED ticks
    /\ ApiUnchanged

ApiPerturb == ApiPerturbOf(ApiKeys)

\* signals.setCursor(x, y)
ApiSetCursor ==
    /\ events < MaxEvents
    /\ \E pt \in Points :
          /\ signals' = SetCursor(signals, pt.x, pt.y)
          /\ lastOp' = [op |-> "setCursor", x |-> pt.x, y |-> pt.y]
    /\ events' = events + 1
    /\ UNCHANGED ticks
    /\ ApiUnchanged

\* signals.update()
ApiUpdate ==
    /\ ticks < MaxTicks
    /\ \E dt \in FrameDts :
          /\ signals' = SignalsUpdate(signals, dt)
          /\ lastOp' = [op |-> "update", dt |-> dt]
    /\ ticks' = ticks + 1
    /\ UNCHANGED events
    /\ ApiUnchanged

NextSignals ==
    \/ ApiPerturb
    \/ ApiSetCursor
    \/ ApiUpdate

SpecSignals == InitApi /\ [][NextSignals]_vars

(***************************************************************************)
(* SpecEnergy: non-forced perturb('energy', v), v >= 0, and update() in    *)
(* any order.                                                              *)
(***************************************************************************)
EnergyValues == { 0, 7000, 15000 }

ApiAddEnergy ==
    /\ events < MaxEvents
    /\ \E value \in EnergyValues :
          /\ signals' = Perturb(signals, "energy", value, FALSE)
          /\ lastOp' = [op |-> "perturb", key |-> "energy", value |-> value,
                        force |-> FALSE]
    /\ events' = events + 1
    /\ UNCHANGED ticks
    /\ ApiUnchanged

NextEnergy ==
    \/ ApiAddEnergy
    \/ ApiUpdate

SpecEnergy == InitApi /\ [][NextEnergy]_vars

(***************************************************************************)
(* Properties.                                                             *)
(***************************************************************************)

\* C1 (SpecSignals): right after perturb(name, v, true) on a signal name, and
\* before any update(), params[name] and targets[name] both equal v.
C1_ForcedWriteIsImmediate ==
    (lastOp.op = "perturb" /\ lastOp.force /\ lastOp.key \in SignalKeys)
        => /\ signals.params[lastOp.key] = lastOp.value
           /\ signals.targets[lastOp.key] = lastOp.value

\* a forced write of 1.5 to energy after an update() has smoothed it
C1_Witness ==
    /\ lastOp.op = "perturb" /\ lastOp.force /\ lastOp.key = "energy"
    /\ lastOp.value = 15000
    /\ signals.params.energy = 15000
    /\ ticks > 0

\* C2 (SpecEnergy): whatever non-forced perturb('energy', v) calls with
\* v >= 0 and update() calls have run, targets.energy <= 1.
C2_EnergyTargetCapped == signals.targets.energy <= Scale

\* two additions in a row that together exceed 1 leave the target at 1
C2_Witness ==
    /\ lastOp.op = "perturb" /\ lastOp.value = 15000
    /\ events >= 2
    /\ signals.targets.energy = Scale

\* C3 (SpecSignals), as claimed: perturb(name, v, force) with a name that is
\* no signal changes no current or target value and adds no key.
C3_UnknownNameIsNoOp ==
    [][ (lastOp'.op = "perturb" /\ lastOp'.key \notin SignalKeys)
            => /\ DOMAIN signals'.params = DOMAIN signals.params
               /\ DOMAIN signals'.targets = DOMAIN signals.targets
               /\ \A k \in SignalKeys :
                     /\ signals'.params[k] = signals.params[k]
                     /\ signals'.targets[k] = signals.targets[k] ]_vars

\* the steps of a tick whose audio update ran, and of one that skipped it
FullTick ==
    << "signals.update", "audioEngine.update", "renderer.draw", "updateUI",
       "requestAnimationFrame" >>

TickWithoutAudio ==
    << "signals.update", "renderer.draw", "updateUI", "requestAnimationFrame" >>

\* C4 (Spec): a frame tick changes params and targets exactly as its one
\* signals.update() does, whatever the audio update, draw() and updateUI() of
\* that tick do; the three musical-clock callbacks, and every other step that
\* is no pointer event, leave params and targets as they are.
C4_ConsumersNeverWriteSignals ==
    [][ /\ (ticks' # ticks)
            => \E dt \in FrameDts : signals' = SignalsUpdate(signals, dt)
        /\ (ticks' = ticks /\ events' = events) => signals' = signals ]_vars

\* a tick whose audio update sent commands and whose draw() moved the core's
\* glow, after a chord callback advanced the progression
C4_Witness ==
    /\ lastOp.op = "loop"
    /\ Len(cmds) > 0
    /\ renderer.coreEnergy > 0
    /\ statusLabel.energy > 0
    /\ audio.currentChordIndex > 0

\* C5 (Spec): every tick runs signals.update(), audioEngine.update(),
\* renderer.draw(), updateUI() in this order, each once, and then schedules
\* the next tick.
C5_TickOrder == tickLog = FullTick

\* a second tick with the sound engine started
C5_Witness ==
    /\ lastOp.op = "loop"
    /\ ticks >= 2
    /\ audio.initialized
    /\ Has(cmds, "superSaw.frequency.rampTo")

\* C6 (SpecFaults): an exception of audioEngine.update() never leaves loop();
\* the tick in which it is thrown, and every later tick, still runs
\* signals.update() and renderer.draw(), and, as long as draw() itself has not
\* thrown, the UI update and the scheduling of the next tick.
C6_AudioFaultIsolated ==
    /\ uncaught # "audioEngine.update"
    /\ audioFaulted
         => /\ Head(tickLog) = "signals.update"
            /\ Has(tickLog, "renderer.draw")
            /\ uncaught = "none"
                 => /\ loopScheduled
                    /\ tickLog \in { FullTick, TickWithoutAudio }

\* the tick in which the sound renderer failed a command has run to its end
C6_Witness ==
    /\ lastOp.op = "loop"
    /\ audioFaulted
    /\ tickLog = FullTick
    /\ loopScheduled
    /\ ~ Has(cmds, "superSaw.volume.rampTo")

\* C7 (SpecFaults): audioFaulted starts false; it is set only by a tick whose
\* audioEngine.update() threw, which logs one error; once set it stays set,
\* no later tick calls audioEngine.update() or sends a command, and nothing
\* more is logged.
C7_AudioFaultPersistent ==
    /\ ~ audioFaulted
    /\ errorLogs = 0
    /\ [][ /\ audioFaulted => audioFaulted'
           /\ (~ audioFaulted /\ audioFaulted')
                => /\ ticks' # ticks
                   /\ Has(tickLog', "audioEngine.update")
                   /\ errorLogs' = errorLogs + 1
           /\ audioFaulted
                => /\ errorLogs' = errorLogs
                   /\ (ticks' # ticks)
                        => (~ Has(tickLog', "audioEngine.update") /\ cmds' = <<>>)
           /\ ~ audioFaulted' => errorLogs' = 0 ]_vars

\* a tick after the one that set the flag
C7_Witness ==
    /\ lastOp.op = "loop"
    /\ audioFaulted
    /\ errorLogs = 1
    /\ tickLog = TickWithoutAudio
    /\ cmds = <<>>

\* C8 (SpecFaults), as claimed: once an initialization has ended rejected, no
\* tick's audio update sends a command to the sound renderer.
C8_InitFailureSilencesAudio ==
    (initRejected /\ lastOp.op = "loop") => cmds = <<>>

\* C9 (SpecFaults), as claimed: an exception of renderer.draw() is caught in
\* loop() and the next tick stays scheduled.
C9_DrawFaultIsolated == uncaught = "none" /\ loopScheduled

\* C10 (Spec), as claimed: at every tick the dragActive that consumers read
\* is 1 exactly if the Interaction's isMouseDown is set.
C10_PressedNeverDesyncs ==
    lastOp.op = "loop"
        => \A n \in 1..Len(interactions) :
              (signals.params.dragActive = Scale) <=> interactions[n].isMouseDown

\* C11 (Spec): right after a move sample params.dragActive is exactly 1 if
\* the sample came between a press and its release (isMouseDown set) and
\* exactly 0 if it came after a release; ticks and musical-clock callbacks
\* leave it as the last move sample set it.
C11_PressedForcedAtMoveSamples ==
    [][ /\ (events' # events /\ lastOp'.op = "pointermove")
            => \A n \in 1..Len(interactions') :
                  signals'.params.dragActive =
                      IF interactions'[n].isMouseDown THEN Scale ELSE 0
        /\ (events' = events)
            => signals'.params.dragActive = signals.params.dragActive ]_vars

\* two ticks after a move sample with the pointer pressed
C11_Witness ==
    /\ lastOp.op = "loop"
    /\ ticks >= 2
    /\ Len(interactions) = 1
    /\ interactions[1].isMouseDown
    /\ signals.params.dragActive = Scale
    /\ signals.targets.dragActive = Scale

\* C12 (Spec): every tick multiplies the targets of drag, velocity,
\* sharpness and dragForce by 0.95, 0.88, 0.85 and 0.86, once each, whatever
\* the frame time; N ticks without a perturbation in between therefore leave
\* target0 * rate^N.
C12_DecayOncePerUpdate ==
    [][ (ticks' # ticks)
            => /\ signals'.targets.drag = PerMille(signals.targets.drag, DecayDrag)
               /\ signals'.targets.velocity =
                      PerMille(signals.targets.velocity, DecayVelocity)
               /\ signals'.targets.sharpness =
                      PerMille(signals.targets.sharpness, DecaySharpness)
               /\ signals'.targets.dragForce =
                      PerMille(signals.targets.dragForce, DecayDragForce) ]_vars

\* two ticks after a pressed drag with a turn: the four targets are still
\* above 0 and below the values the drag wrote
C12_Witness ==
    /\ lastOp.op = "loop"
    /\ lastOp.dt = 3000
    /\ ticks >= 2
    /\ signals.targets.drag > 0
    /\ signals.targets.velocity > 0
    /\ signals.targets.sharpness > 0
    /\ signals.targets.dragForce > 0

(***************************************************************************)
(* SpecIdle: new Signals(), at most one setCursor(), then update() after   *)
(* update() with every input withheld.                                     *)
(***************************************************************************)
IdleDts == { 0, 16, 3000 }

IdleSetCursor ==
    /\ ticks = 0
    /\ events = 0
    /\ \E pt \in Points :
          /\ signals' = SetCursor(signals, pt.x, pt.y)
          /\ lastOp' = [op |-> "setCursor", x |-> pt.x, y |-> pt.y]
    /\ events' = events + 1
    /\ UNCHANGED ticks
    /\ ApiUnchanged

IdleUpdate ==
    /\ ticks < MaxIdleTicks
    /\ \E dt \in IdleDts :
          /\ signals' = SignalsUpdate(signals, dt)
          /\ lastOp' = [op |-> "update", dt |-> dt]
    /\ ticks' = ticks + 1
    /\ UNCHANGED events
    /\ ApiUnchanged

NextIdle ==
    \/ IdleSetCursor
    \/ IdleUpdate

SpecIdle == InitApi /\ [][NextIdle]_vars

\* C13 (SpecIdle): with every perturbation withheld, the current value of
\* energy, and its target, are above 0 after every update(), whatever the
\* frame times.
C13_IdleEnergyPositive ==
    /\ signals.params.energy > 0
    /\ signals.targets.energy > 0

\* the last of a run of idle updates: energy has sunk from its initial 0.08
\* towards the floor's band
C13_Witness ==
    /\ lastOp.op = "update"
    /\ ticks = MaxIdleTicks
    /\ signals.params.energy < InitParams.energy
    /\ signals.targets.energy <= BaseEnergy(signals.targets.drift)

\* C14 (SpecIdle), as claimed: at the end of every update() the energy
\* target is at least the floor 0.06 + 0.02 * sin(0.6 * drift) computed in
\* that update, and the focus target at least 0.05 + 0.02 * cos(0.4 * drift).
C14_TargetsAtLeastFloor ==
    lastOp.op = "update"
        => /\ signals.targets.energy >= BaseEnergy(signals.targets.drift)
           /\ signals.targets.focus >= BaseFocus(signals.targets.drift)

\* C15 (SpecIdle): with the position target held, every update() leaves the
\* target and, on each axis by itself, takes 0.08 of the distance
\* target - current off it: the distance does not grow, does not change
\* sign, and shrinks whenever 0.08 of it is at least one unit of the last
\* decimal kept.
C15_PositionConverges ==
    [][ (ticks' # ticks)
            => /\ signals'.targets.position = signals.targets.position
               /\ \A axis \in {"x", "y"} :
                     LET d == signals.targets.position[axis]
                                  - signals.params.position[axis]
                         e == signals'.targets.position[axis]
                                  - signals'.params.position[axis]
                     IN  /\ e = d - PerMille(d, smoothing.position)
                         /\ Abs(e) <= Abs(d)
                         /\ d * e >= 0
                         /\ (d > 0 => e >= 0) /\ (d < 0 => e <= 0)
                         /\ Abs(d) * smoothing.position >= 1000 => Abs(e) < Abs(d) ]_vars

\* the cursor was set to (0.5, 0) and a run of updates has brought the
\* current y part of the way down, x resting on its target
C15_Witness ==
    /\ lastOp.op = "update"
    /\ ticks = MaxIdleTicks
    /\ signals.targets.position = [x |-> 5000, y |-> 0]
    /\ signals.params.position.x = 5000
    /\ signals.params.position.y > 0
    /\ signals.params.position.y < 3000

(***************************************************************************)
(* SpecMoves: one Interaction right after its construction and a pointer   *)
(* that is pressed, released and moved between a few points.               *)
(***************************************************************************)
MovePoints ==
    { [x |-> 4000, y |-> 5000], [x |-> 5000, y |-> 5000], [x |-> 6000, y |-> 5000],
      [x |-> 8000, y |-> 5000], [x |-> 5000, y |-> 4000], [x |-> 5001, y |-> 5000] }

InitMoves ==
    /\ signals = SignalsNew
    /\ interactions = <<InteractionNew>>
    /\ audio = Constructed.audio
    /\ renderer = Constructed.renderer
    /\ statusLabel = Constructed.statusLabel
    /\ audioFaulted = Constructed.audioFaulted
    /\ errorLogs = Constructed.errorLogs
    /\ loopScheduled = Constructed.loopScheduled
    /\ uncaught = Constructed.uncaught
    /\ tickLog = Constructed.tickLog
    /\ cmds = Constructed.cmds
    /\ lastOp = [op |-> "new Interaction"]
    /\ appInitialized = FALSE
    /\ startScreenHidden = FALSE
    /\ pendingInits = 0
    /\ initRejected = FALSE
    /\ ticks = 0
    /\ events = 0

SampleMove ==
    \E pt \in MovePoints, dt \in MoveDts :
        PointerEvent("pointermove", [x |-> pt.x, y |-> pt.y, dt |-> dt])

NextMoves ==
    \/ SampleMove
    \/ PointerDown
    \/ PointerUp

SpecMoves == InitMoves /\ [][NextMoves]_vars

\* C16 (SpecMoves): the sharpness a move sample writes is in [0, 1]; it is 0
\* when the previous or the current displacement is no longer than 0.0001
\* (the first sample included, whose previous vector is (0, 0)), 0 when the
\* two displacements point the same way, and 1 when they point opposite ways.
C16_SharpnessOfMoveSample ==
    [][ (events' # events /\ lastOp'.op = "pointermove")
            => LET prev == interactions[1].lastVector
                   curr == interactions'[1].lastVector
                   cross == (prev.x * curr.y) - (prev.y * curr.x)
                   dot == (prev.x * curr.x) + (prev.y * curr.y)
                   short == \/ Hypot(prev.x, prev.y) <= MagnitudeEpsilon
                            \/ Hypot(curr.x, curr.y) <= MagnitudeEpsilon
                   sharpness == signals'.targets.sharpness
               IN  /\ sharpness >= 0 /\ sharpness <= Scale
                   /\ short => sharpness = 0
                   /\ (~ short /\ cross = 0 /\ dot > 0) => sharpness = 0
                   /\ (~ short /\ cross = 0 /\ dot < 0) => sharpness = Scale ]_vars

\* the sample that turns back on the previous one has written sharpness 1
C16_Witness ==
    /\ lastOp.op = "pointermove"
    /\ events >= 2
    /\ interactions[1].lastVector = [x |-> 1000, y |-> 0]
    /\ interactions[1].lastPosition = [x |-> 5000, y |-> 5000]
    /\ signals.targets.sharpness = Scale

\* C17 (SpecMoves), as claimed: a move sample adds to the energy target and
\* to the focus target an amount proportional to the displacement, capped at
\* 1: neither target is lowered, neither exceeds 1, and a sample with no
\* displacement leaves both.
C17_MoveDrivesAdditively ==
    [][ (events' # events /\ lastOp'.op = "pointermove")
            => LET curr == interactions'[1].lastVector
                   dist == Hypot(curr.x, curr.y)
               IN  /\ signals'.targets.energy =
                          Min(Scale, signals.targets.energy + (dist * 2))
                   /\ signals'.targets.focus >= signals.targets.focus
                   /\ signals'.targets.focus <= Scale
                   /\ dist = 0 => signals'.targets.focus = signals.targets.focus ]_vars

\* C18 (SpecMoves), as claimed: a press raises the targets of energy, focus
\* and resonance by a positive bump each, up to the cap of 1, whatever they
\* were, and changes no current value.
C18_PressBumpsAdditively ==
    [][ (events' # events /\ lastOp'.op = "pointerdown")
            => /\ signals'.params = signals.params
               /\ \A key \in {"energy", "focus", "resonance"} :
                     /\ signals'.targets[key] <= Scale
                     /\ \/ signals'.targets[key] > signals.targets[key]
                        \/ signals'.targets[key] = Scale ]_vars

\* C19 (Spec): currentChordIndex is always an index of the chord list; only
\* the quarter-note callback changes it, by one step and cyclically; the
\* half-note and eighth-note callbacks and the frame tick leave it.
C19_ChordIndexStepsByOne ==
    /\ [](audio.currentChordIndex \in 0..(NumChords - 1))
    /\ [][ /\ audio'.currentChordIndex # audio.currentChordIndex
                => /\ ChordCallback
                   /\ audio'.currentChordIndex =
                          (audio.currentChordIndex + 1) % NumChords
           /\ (MonoCallback \/ GrainCallback \/ ticks' # ticks)
                => audio'.currentChordIndex = audio.currentChordIndex ]_vars

\* the progression has reached the last chord and a tick has run since
C19_Witness ==
    /\ lastOp.op = "loop"
    /\ audio.currentChordIndex = NumChords - 1
    /\ Len(cmds) > 0

\* C20 (SpecFaults), as claimed: a tick whose current drag is above 0.05
\* sends the lead voice no release, and an attack only if its oscillator is
\* not started, which the attack then starts and later such ticks find
\* started; the super-saw voice is sent an attack only when the engine has
\* sent none before, so one in the lifetime of the engine.
C20_VoicesNotRetriggered ==
    [][ /\ (ticks' # ticks /\ signals'.params.drag > DragThreshold)
            => /\ ~ Has(cmds', "leadSynth.triggerRelease")
               /\ Has(cmds', "leadSynth.triggerAttack") => ~ audio.leadStarted
               /\ Has(cmds', "leadSynth.triggerAttack") => audio'.leadStarted
               /\ audio.leadStarted => audio'.leadStarted
        /\ (ticks' = ticks) => audio'.leadStarted = audio.leadStarted
        /\ audio.superSawActive => audio'.superSawActive
        /\ ((ticks' # ticks \/ pendingInits' < pendingInits)
               /\ Has(cmds', "superSaw.triggerAttack"))
            => (~ audio.superSawActive /\ audio'.superSawActive) ]_vars

\* C21 (SpecMoves): a move sample replaces the dragForce target by 0 if the
\* pointer is not pressed and by min(1, 0.05 + 0.9 * velocity + 10 * dist) if
\* it is, a value in [0.05, 1]; the velocity it writes is in [0, 1].
C21_DragForceOfMoveSample ==
    [][ (events' # events /\ lastOp'.op = "pointermove")
            => LET curr == interactions'[1].lastVector
                   dist == Hypot(curr.x, curr.y)
                   velocity == signals'.targets.velocity
                   dragForce == signals'.targets.dragForce
               IN  /\ velocity >= 0 /\ velocity <= Scale
                   /\ ~ interactions[1].isMouseDown => dragForce = 0
                   /\ interactions[1].isMouseDown
                        => /\ dragForce =
                                 Min(Scale, (500 + ((velocity * 9) \div 10)) + (dist * 10))
                           /\ dragForce >= 500 /\ dragForce <= Scale ]_vars

\* a pressed sample of the smallest displacement: velocity and drag force
\* both strictly inside their ranges
C21_Witness ==
    /\ lastOp.op = "pointermove"
    /\ interactions[1].isMouseDown
    /\ interactions[1].lastVector = [x |-> 1, y |-> 0]
    /\ signals.targets.velocity > 0 /\ signals.targets.velocity < Scale
    /\ signals.targets.dragForce > 500 /\ signals.targets.dragForce < Scale

\* C22 (Spec): targets.drift never decreases: a tick adds 0.1 * dt to it, dt
\* the time since the previous update(), and every other step, the pointer
\* event handlers among them, leaves it.
C22_DriftAccumulates ==
    [][ /\ signals'.targets.drift >= signals.targets.drift
        /\ (ticks' # ticks)
            => signals'.targets.drift = signals.targets.drift + lastOp'.dt
        /\ (ticks' = ticks) => signals'.targets.drift = signals.targets.drift ]_vars

\* presses, moves and releases have come between ticks of 3 s and the drift
\* holds the sum of the frame times
C22_Witness ==
    /\ lastOp.op = "loop"
    /\ ticks >= 2
    /\ events >= 3
    /\ Len(interactions) = 1
    /\ interactions[1].lastVector # [x |-> 0, y |-> 0]
    /\ signals.targets.drift >= 6016

(***************************************************************************)
(* SpecFrames: the renderer alone, drawing frame after frame while move    *)
(* samples switch the pressed signal it reads.                             *)
(***************************************************************************)
FramePressed ==
    /\ events < MaxEvents
    /\ \E pressed \in BOOLEAN :
          /\ signals' = DragActiveSample(signals, pressed)
          /\ lastOp' = [op |-> "dragActive", pressed |-> pressed]
    /\ events' = events + 1
    /\ UNCHANGED ticks
    /\ ApiUnchanged

FrameDraw ==
    /\ ticks < MaxFrames
    /\ \E dt \in FrameDts :
          /\ renderer' = RendererDraw(World, dt, FALSE).renderer
          /\ lastOp' = [op |-> "draw", dt |-> dt]
    /\ ticks' = ticks + 1
    /\ UNCHANGED << signals, interactions, audio, statusLabel, audioFaulted,
                    appInitialized, startScreenHidden, pendingInits, initRejected,
                    loopScheduled, uncaught, errorLogs, tickLog, cmds, events >>

NextFrames ==
    \/ FramePressed
    \/ FrameDraw

SpecFrames == InitApi /\ [][NextFrames]_vars

\* C23 (SpecFrames): coreEnergy is in [0, 1] in every frame; a draw() that is
\* executed moves it by 0.08 of the distance to 1 when params.dragActive is
\* set and to 0 when it is not, so it does not fall while pressed, does not
\* rise while released and does not pass its target; a draw() that returns
\* at once (frame time above 0.1 s) and every other step leave it.
C23_CoreEnergyEases ==
    /\ [](renderer.coreEnergy >= 0 /\ renderer.coreEnergy <= Scale)
    /\ [][ LET target == IF signals.params.dragActive # 0 THEN Scale ELSE 0
               before == renderer.coreEnergy
               after == renderer'.coreEnergy
           IN  /\ (ticks' # ticks /\ lastOp'.dt <= MaxFrameDelta)
                    => /\ after = before + PerMille(target - before, CoreSmoothing)
                       /\ target = Scale => (after >= before /\ after <= Scale)
                       /\ target = 0 => (after <= before /\ after >= 0)
               /\ (ticks' # ticks /\ lastOp'.dt > MaxFrameDelta) => after = before
               /\ (ticks' = ticks) => after = before ]_vars

\* the core has charged while pressed and is discharging after the release
C23_Witness ==
    /\ lastOp.op = "draw"
    /\ lastOp.dt <= MaxFrameDelta
    /\ signals.params.dragActive = 0
    /\ renderer.coreEnergy > 800
    /\ renderer.coreEnergy < 2000

(***************************************************************************)
(* The wireform mesh of the canvas renderer (src/src/visuals/Renderer.js,  *)
(* lines 8-274).  A vertex is [stretchMask, stretch]; its place on the     *)
(* sphere enters only through alignment, the clamped cosine between its    *)
(* normal and the pointer direction (line 148), which is in [0, 1].        *)
(***************************************************************************)
StretchMaskLimit == 9400      \* 0.94
StretchDeadZone == 500        \* 0.05
StretchSmoothing == 80        \* 0.08

\* initMesh(): one vertex per draw of Math.random()
InitMesh(masks) ==
    [ i \in 1..Len(masks) |-> [stretchMask |-> masks[i], stretch |-> 0] ]

\* a mesh loop that lets every vertex stretch
DrawVertexUnmasked(vert, velocity, alignment) ==
    LET stretchEnergy == Max(0, velocity - StretchDeadZone)
        squared == (alignment * alignment) \div Scale
        stretchTarget == ((((stretchEnergy * squared) \div Scale)) * 35) \div 10
    IN  [ vert EXCEPT !.stretch = Lerp(@, stretchTarget, StretchSmoothing) ]

\* lines 113-114 and 148-151 of drawMesh(), for one vertex
DrawVertex(vert, velocity, alignment) ==
    LET stretchEnergy == Max(0, velocity - StretchDeadZone)
        mask == IF vert.stretchMask > StretchMaskLimit THEN 1 ELSE 0
        squared == (alignment * alignment) \div Scale
        stretchTarget == ((((stretchEnergy * mask) * squared) \div Scale) * 35) \div 10
    IN  [ vert EXCEPT !.stretch = Lerp(@, stretchTarget, StretchSmoothing) ]

(***************************************************************************)
(* SpecMesh: a mesh of MeshSize vertices, drawn frame after frame while    *)
(* the velocity signal and the pointer direction change.                   *)
(***************************************************************************)
MeshSize == 2
MaskValues == { 9400, 9700 }
MeshVelocities == { 500, 8000 }
Alignments == { 0, 7000 }

InitMeshSpec ==
    /\ signals = SignalsNew
    /\ \E masks \in [1..MeshSize -> MaskValues] :
          renderer = [coreEnergy |-> 0, mesh |-> InitMesh(masks)]
    /\ audio = Constructed.audio
    /\ statusLabel = Constructed.statusLabel
    /\ audioFaulted = Constructed.audioFaulted
    /\ errorLogs = Constructed.errorLogs
    /\ loopScheduled = Constructed.loopScheduled
    /\ uncaught = Constructed.uncaught
    /\ tickLog = Constructed.tickLog
    /\ cmds = Constructed.cmds
    /\ lastOp = [op |-> "new Renderer"]
    /\ interactions = <<>>
    /\ appInitialized = FALSE
    /\ startScreenHidden = FALSE
    /\ pendingInits = 0
    /\ initRejected = FALSE
    /\ ticks = 0
    /\ events = 0

\* the velocity the next frames read
MeshVelocity ==
    /\ events < MaxEvents
    /\ \E velocity \in MeshVelocities :
          /\ signals' = Perturb(signals, "velocity", velocity, TRUE)
          /\ lastOp' = [op |-> "velocity", value |-> velocity]
    /\ events' = events + 1
    /\ UNCHANGED ticks
    /\ ApiUnchanged

\* drawMesh(): the loop over the vertices
MeshDraw ==
    /\ ticks < MaxMeshFrames
    /\ \E alignment \in [1..MeshSize -> Alignments] :
          /\ renderer' =
                [ renderer EXCEPT !.mesh =
                    [ i \in 1..MeshSize |->
                        DrawVertex(renderer.mesh[i], signals.params.velocity,
                                   alignment[i]) ] ]
          /\ lastOp' = [op |-> "drawMesh", alignment |-> alignment]
    /\ ticks' = ticks + 1
    /\ UNCHANGED << signals, interactions, audio, statusLabel, audioFaulted,
                    appInitialized, startScreenHidden, pendingInits, initRejected,
                    loopScheduled, uncaught, errorLogs, tickLog, cmds, events >>

NextMesh ==
    \/ MeshVelocity
    \/ MeshDraw

SpecMesh == InitMeshSpec /\ [][NextMesh]_vars

\* C24 (SpecMesh): every vertex's stretch is at least 0 in every frame and
\* exactly 0 for a vertex whose mask is not above 0.94; the mesh is kept
\* from frame to frame: only drawMesh() changes a stretch, starting from the
\* value the frame before left, and nothing changes a mask.
C24_StretchRetainedAndMasked ==
    /\ [](\A i \in 1..MeshSize :
             /\ renderer.mesh[i].stretch >= 0
             /\ renderer.mesh[i].stretchMask <= StretchMaskLimit
                  => renderer.mesh[i].stretch = 0)
    /\ [][ /\ (ticks' = ticks) => renderer'.mesh = renderer.mesh
           /\ \A i \in 1..MeshSize :
                 /\ renderer'.mesh[i].stretchMask = renderer.mesh[i].stretchMask
                 /\ (ticks' # ticks)
                      => \E target \in 0..(4 * Scale) :
                            renderer'.mesh[i].stretch =
                                Lerp(renderer.mesh[i].stretch, target,
                                     StretchSmoothing) ]_vars

\* a fast pointer aligned with both vertices: the eligible one has stretched
\* over the frames, the other has not
C24_Witness ==
    /\ lastOp.op = "drawMesh"
    /\ ticks >= 2
    /\ signals.params.velocity = 8000
    /\ \A i \in 1..MeshSize : lastOp.alignment[i] = 7000
    /\ renderer.mesh[1].stretchMask = 9700
    /\ renderer.mesh[1].stretch > 1000
    /\ renderer.mesh[2].stretchMask = 9400
    /\ renderer.mesh[2].stretch = 0

\* C25 (Spec): in every reachable state params.dragActive equals
\* targets.dragActive and is 0 or 1; a tick leaves the target as it was and
\* hands it to the current value.
C25_PressedBypassesSmoothing ==
    /\ [](/\ signals.params.dragActive = signals.targets.dragActive
          /\ signals.targets.dragActive \in {0, Scale})
    /\ [][ (ticks' # ticks)
             => /\ signals'.targets.dragActive = signals.targets.dragActive
                /\ signals'.params.dragActive = signals.targets.dragActive ]_vars

\* a tick that ran while the pointer was held
C25_Witness ==
    /\ lastOp.op = "loop"
    /\ signals.targets.dragActive = Scale
    /\ signals.params.dragActive = Scale

\* C26 (SpecMoves), as claimed: one pointerdown event runs the press handler
\* once, so the energy target after it is min(1, e + 0.3) for the target e
\* before it.
C26_PressHandledOnce ==
    [][ (events' # events /\ lastOp'.op = "pointerdown")
            => signals'.targets.energy
                 = Min(Scale, signals.targets.energy + 3000) ]_vars

\* C27 (SpecFaults), as claimed: whatever the clicks on the start screen,
\* also while an earlier audioEngine.init() is awaiting, the audio graph is
\* built at most once, startGenerativeLoop() runs at most once and at most
\* one Interaction is created.
C27_StartupIdempotent ==
    /\ audio.graphs <= 1
    /\ audio.loops <= 1
    /\ Len(interactions) <= 1

(***************************************************************************)
(* SpecLead: the page after a start-up that went well (one click, init()   *)
(* resolved), a pointer that is pressed, released and moved to the middle  *)
(* of the window, to its top edge or above it, and 60 Hz frame ticks.      *)
(***************************************************************************)
LeadPoints ==
    { [x |-> 5000, y |-> 5000], [x |-> 5000, y |-> 0], [x |-> 5000, y |-> -10000] }

\* the index of the lead-voice note AudioEngine.update() reads, if it reads one
LeadNotes(s) ==
    IF s.params.drag > DragThreshold
    THEN << NoteIndex(s.params.position.y) >>
    ELSE << >>

InitLead ==
    \E w \in { AppLoop(Constructed, 16, 0, "none", FALSE, FALSE) } :
        /\ signals = w.signals
        /\ audio = AudioEngineInit(w.audio, "ok")
        /\ renderer = w.renderer
        /\ statusLabel = w.statusLabel
        /\ audioFaulted = w.audioFaulted
        /\ errorLogs = w.errorLogs
        /\ loopScheduled = w.loopScheduled
        /\ uncaught = w.uncaught
        /\ tickLog = w.tickLog
        /\ cmds = InitCommands("ok")
        /\ lastOp = [op |-> "init", outcome |-> "ok"]
        /\ interactions = <<InteractionNew>>
        /\ appInitialized = TRUE
        /\ startScreenHidden = TRUE
        /\ pendingInits = 0
        /\ initRejected = FALSE
        /\ ticks = 0
        /\ events = 0

LeadMove ==
    \E pt \in LeadPoints, dt \in MoveDts :
        PointerEvent("pointermove", [x |-> pt.x, y |-> pt.y, dt |-> dt])

LeadTick ==
    /\ loopScheduled
    /\ ticks < MaxLeadTicks
    /\ \E w \in { AppLoop(World, 16, 16, "none", FALSE, FALSE) } :
          /\ signals' = w.signals
          /\ audio' = w.audio
          /\ renderer' = w.renderer
          /\ statusLabel' = w.statusLabel
          /\ audioFaulted' = w.audioFaulted
          /\ errorLogs' = w.errorLogs
          /\ loopScheduled' = w.loopScheduled
          /\ uncaught' = w.uncaught
          /\ tickLog' = w.tickLog
          /\ cmds' = w.cmds
          /\ lastOp' = [op |-> "loop", dt |-> 16, notes |-> LeadNotes(w.signals)]
    /\ ticks' = ticks + 1
    /\ UNCHANGED << interactions, appInitialized, startScreenHidden, pendingInits,
                    initRejected, events >>

NextLead ==
    \/ PointerDown
    \/ LeadMove
    \/ PointerUp
    \/ LeadTick

SpecLead == InitLead /\ [][NextLead]_vars

\* C28 (SpecLead), as claimed: whenever the audio update of a tick selects a
\* lead-voice note, the index it computes from the current position is an
\* index of the chord, also for a pointer at the top edge or outside the
\* window.
C28_NoteIndexValid ==
    (lastOp.op = "loop")
        => \A n \in 1..Len(lastOp.notes) :
              lastOp.notes[n] \in 0..(ChordLength - 1)

\* C29 (Spec), as claimed: every scalar signal other than drift has its
\* target and its current value in [0, 1] in every state reachable by move
\* samples inside the window, presses, releases and ticks.
C29_ScalarsInUnitRange ==
    \A key \in { "energy", "focus", "depth", "resonance", "texture", "drag",
                 "dragActive", "dragForce", "velocity", "sharpness" } :
        /\ signals.targets[key] \in 0..Scale
        /\ signals.params[key] \in 0..Scale

(***************************************************************************)
(* SpecStart: start-up with a Tone.start() that may reject, clicks at any  *)
(* time, and a pointer that is used from the moment the page is shown,     *)
(* whether or not a listener is installed; the renderers work.             *)
(***************************************************************************)
\* the window dispatches a pointer event to whatever listeners it has
WindowEvent(ev, arg) ==
    /\ events < MaxEvents
    /\ \E r \in { Deliver(interactions, signals, ev, arg) } :
           /\ signals' = r.signals
           /\ interactions' = r.interactions
    /\ events' = events + 1
    /\ cmds' = <<>>
    /\ lastOp' = [op |-> ev]
    /\ UNCHANGED << audio, renderer, statusLabel, audioFaulted, appInitialized,
                    startScreenHidden, pendingInits, initRejected, loopScheduled,
                    uncaught, errorLogs, tickLog, ticks >>

WindowDown == WindowEvent("pointerdown", NoArg)

WindowMove ==
    \E pt \in Points, dt \in MoveDts :
        WindowEvent("pointermove", [x |-> pt.x, y |-> pt.y, dt |-> dt])

WindowUp == WindowEvent("pointerup", NoArg)

NextStart ==
    \/ ClickAnyTime
    \/ ToneStartSettlesOrFails
    \/ WindowDown
    \/ WindowMove
    \/ WindowUp
    \/ Loop

SpecStart == Init /\ [][NextStart]_vars

\* C30 (SpecStart), as claimed: pointer input reaches the signals only after
\* audioEngine.init() has resolved; before that, and forever once an init()
\* has rejected, there is no listener, no pointer event changes a target or a
\* current value, and the signals change by update() alone while the frame
\* loop keeps running.
C30_NoInputOnceInitRejected ==
    /\ [](loopScheduled)
    /\ [](initRejected => interactions = <<>>)
    /\ [][ (interactions = <<>> \/ initRejected)
             => /\ (ticks' = ticks) => signals' = signals
                /\ (ticks' # ticks)
                     => \E dt \in FrameDts : signals' = SignalsUpdate(signals, dt) ]_vars

\* C30 (SpecStart), amended: an Interaction, and with it the pointer
\* listeners, is created only in a step in which a call of
\* audioEngine.init() resolves; as long as none exists, also after a
\* rejection, no pointer event changes a target or a current value and the
\* signals change by update() alone, while the frame loop keeps running.
C30_NoInputUntilInitResolves ==
    /\ [](loopScheduled)
    /\ [](interactions # <<>> => audio.initialized)
    /\ [][ /\ (interactions' # interactions /\ events' = events)
               => \/ lastOp'.op = "init" /\ lastOp'.outcome = "ok"
                  \/ lastOp'.op = "click" /\ audio.initialized
           /\ (interactions = <<>>)
               => /\ interactions' = <<>> \/ events' = events
                  /\ (ticks' = ticks) => signals' = signals
                  /\ (ticks' # ticks)
                       => \E dt \in FrameDts :
                             signals' = SignalsUpdate(signals, dt) ]_vars

\* init() has rejected, no listener exists, the pointer has been pressed and
\* moved, and ticks have run
C30_Witness ==
    /\ initRejected
    /\ interactions = <<>>
    /\ lastOp.op = "pointermove"
    /\ events >= 2
    /\ ticks >= 1
    /\ loopScheduled
    /\ signals.targets.position = InitParams.position
    /\ signals.targets.dragActive = 0

=============================================================================
